---- MODULE Spec2Model ----
(***************************************************************************)
(* Collaborative drawing canvas: the server's DrawingState (operation log  *)
(* with undo/redo cursor and retention cap), the RoomManager, the          *)
(* WebSocket message handlers of server.js and the browser client          *)
(* (WebSocketManager, CanvasManager, main.js).                             *)
(*                                                                         *)
(* SpecLog  drives one DrawingState instance through its public methods.   *)
(* Spec     is the server: connections deliver arbitrary messages to the    *)
(*          handlers of wss.on('connection').                               *)
(* SpecSync is the server with the browser clients: messages and events     *)
(*          travel through FIFO channels.                                   *)
(***************************************************************************)
EXTENDS Integers, Sequences, FiniteSets, TLC

\* ------------------------------------------------------------------ bounds
\* this.maxOperations (1000 in the source), scaled down so that the eviction
\* branch of addOperation is reached within the explored depth.
maxOperations == 3

\* Number of addOperation calls explored (caps the allocation counter).
MaxAppends == 5

\* Number of draw messages the server handles in a run.
MaxDraws == 2

\* Number of messages connections deliver in a run of Spec.
MaxMessages == 4

\* Number of user gestures (strokes, clicks, cursor reports) in a run of SpecSync.
MaxGestures == 2

\* Number of addUser calls in a run of SpecRoster: one more than the palette
\* has entries, so that the index wraps around.
MaxJoins == 13

\* Number of participants of the room that joined with a color of their own.
MaxColored == 1

\* Number of removeUser calls and repeated joins in a run of SpecRoster.
MaxLeaves == 2

\* Number of times an open socket of the page loses its connection, and number
\* of clicks on the join button, in a run of SpecClient.
MaxLosses == 2
MaxSwitches == 2

\* ------------------------------------------------------------ value domains
\* null and undefined, as records so that they compare with operation objects.
Null == [tag |-> "null"]
Undefined == [tag |-> "undefined"]

\* Values Date.now() may return; the wall clock is not monotonic. The two
\* Date.now() calls of one addOperation fall in the same millisecond.
Times == {1, 2}
\* Values of Math.random().toString(36).substr(2, 9).
RandomSuffixes == {"a", "b"}
\* The values it takes in the runs of the server.
ServerRandoms == {"a"}
\* Stroke payloads {tool, color, width, points}: pen stands for tool, color and
\* width, points for the number of points. A raw connection may send a stroke
\* without points.
Strokes == {[pen |-> "p1", points |-> 1], [pen |-> "p2", points |-> 0]}

\* The draft the method-level harness passes to addOperation.
TestUser == <<"u1">>
TestStrokes == {[pen |-> "p1", points |-> 1]}

\* ---------------------------------------------------------------- variables
VARIABLES
    ds,          \* the DrawingState instance under test: operations, currentIndex
    nextObj,     \* number of operation objects allocated so far (object identity)
    last,        \* the most recent method call: kind, cursor before it, return value
    prev,        \* the call before `last`
    appended,    \* identities of the operations passed to addOperation, in call order
    onlyAppends, \* TRUE while no undo, redo or clear has been called
    cleared,     \* identities of the operations that were stored when clear() ran
    rooms,       \* RoomManager.rooms: roomId -> room, or NoRoom
    conns,       \* per connection: readyState and the closure's userId, roomId
    timers,      \* pending setTimeout callbacks of removeUser, oldest first
    nextUid,     \* number of user ids generateUserId has produced
    sent,        \* events the most recent step sent, per receiving connection
    handled,     \* the most recent step: message type, connection, closure before
    budget,      \* number of environment inputs so far (messages or gestures)
    inbox,       \* per connection: messages sent by the client, not yet handled
    outbox,      \* per connection: events sent by the server, not yet received
    client,      \* per connection: the browser client (WebSocketManager, canvas)
    due,         \* per connection: draw operations broadcast while it was another participant
    wsm          \* one page's WebSocketManager: its sockets, ws, reconnect counter, timers

logVars == <<ds, last, prev, appended, onlyAppends, cleared>>
serverVars == <<rooms, conns, timers, nextUid, sent, handled>>
netVars == <<inbox, outbox, client, due, wsm>>
vars == <<ds, nextObj, last, prev, appended, onlyAppends, cleared,
          rooms, conns, timers, nextUid, sent, handled, budget,
          inbox, outbox, client, due, wsm>>

\* ------------------------------------------------------- JavaScript arrays
Min(a, b) == IF a < b THEN a ELSE b
Max(a, b) == IF a > b THEN a ELSE b

\* Array.prototype.slice(0, end): a negative end counts from the back.
Slice0(arr, end) ==
    LET e == IF end < 0 THEN Max(Len(arr) + end, 0) ELSE Min(end, Len(arr))
    IN  SubSeq(arr, 1, e)

\* arr[i] with a 0-based index: undefined outside the array.
At(arr, i) == IF i >= 0 /\ i < Len(arr) THEN arr[i + 1] ELSE Undefined

\* JavaScript truthiness of a value that is an object, null or undefined.
Truthy(v) == v # Null /\ v # Undefined

\* ------------------------------------------------------------ DrawingState
\* constructor()
NewDrawingState == [operations |-> <<>>, currentIndex |-> -1]

\* The object pushed by addOperation: {...operation, timestamp, id}; obj is the
\* identity of the freshly allocated object.
StoredOperation(operation, ts, id, obj) ==
    [type |-> operation.type, userId |-> operation.userId, data |-> operation.data,
     timestamp |-> ts, id |-> id, obj |-> obj]

\* generateOperationId(): `op_${Date.now()}_${random}`
generateOperationId(now, rnd) == <<"op", now, rnd>>

\* addOperation with the cursor left alone when the oldest entry is evicted.
addOperationNoCursorShift(s, operation, ts, id, obj) ==
    LET sliced == Slice0(s.operations, s.currentIndex + 1)
        pushed == Append(sliced, StoredOperation(operation, ts, id, obj))
        idx    == s.currentIndex + 1
        over   == Len(pushed) > maxOperations
        ops2   == IF over THEN Tail(pushed) ELSE pushed
    IN  [state |-> [operations |-> ops2, currentIndex |-> idx],
         ret   |-> At(ops2, idx)]

\* addOperation that evicts the newest entry (pop) instead of the oldest (shift).
addOperationEvictNewest(s, operation, ts, id, obj) ==
    LET sliced == Slice0(s.operations, s.currentIndex + 1)
        pushed == Append(sliced, StoredOperation(operation, ts, id, obj))
        idx    == s.currentIndex + 1
        over   == Len(pushed) > maxOperations
        ops2   == IF over THEN SubSeq(pushed, 1, Len(pushed) - 1) ELSE pushed
        idx2   == IF over THEN idx - 1 ELSE idx
    IN  [state |-> [operations |-> ops2, currentIndex |-> idx2],
         ret   |-> At(ops2, idx2)]

\* addOperation that pushes without first dropping the redo tail.
addOperationKeepTail(s, operation, ts, id, obj) ==
    LET pushed == Append(s.operations, StoredOperation(operation, ts, id, obj))
        idx    == s.currentIndex + 1
        over   == Len(pushed) > maxOperations
        ops2   == IF over THEN Tail(pushed) ELSE pushed
        idx2   == IF over THEN idx - 1 ELSE idx
    IN  [state |-> [operations |-> ops2, currentIndex |-> idx2],
         ret   |-> At(ops2, idx2)]

\* addOperation without the history limit.
addOperationNoLimit(s, operation, ts, id, obj) ==
    LET sliced == Slice0(s.operations, s.currentIndex + 1)
        pushed == Append(sliced, StoredOperation(operation, ts, id, obj))
        idx    == s.currentIndex + 1
    IN  [state |-> [operations |-> pushed, currentIndex |-> idx],
         ret   |-> At(pushed, idx)]

\* addOperation keeping the log sorted by timestamp instead of appending.
RECURSIVE InsertByTimestamp(_, _)
InsertByTimestamp(ops, op) ==
    IF ops = <<>> THEN <<op>>
    ELSE IF op.timestamp < Head(ops).timestamp THEN <<op>> \o ops
    ELSE <<Head(ops)>> \o InsertByTimestamp(Tail(ops), op)
addOperationByTimestamp(s, operation, ts, id, obj) ==
    LET sliced == Slice0(s.operations, s.currentIndex + 1)
        pushed == InsertByTimestamp(sliced, StoredOperation(operation, ts, id, obj))
        idx    == s.currentIndex + 1
        over   == Len(pushed) > maxOperations
        ops2   == IF over THEN Tail(pushed) ELSE pushed
        idx2   == IF over THEN idx - 1 ELSE idx
    IN  [state |-> [operations |-> ops2, currentIndex |-> idx2], ret |-> At(ops2, idx2)]

\* addOperation that measures the log against the limit before the redo tail
\* is cut off.
addOperationCountsRedoTail(s, operation, ts, id, obj) ==
    LET sliced == Slice0(s.operations, s.currentIndex + 1)
        pushed == Append(sliced, StoredOperation(operation, ts, id, obj))
        idx    == s.currentIndex + 1
        over   == Len(s.operations) + 1 > maxOperations /\ Len(pushed) > 1
        ops2   == IF over THEN Tail(pushed) ELSE pushed
        idx2   == IF over THEN idx - 1 ELSE idx
    IN  [state |-> [operations |-> ops2, currentIndex |-> idx2],
         ret   |-> At(ops2, idx2)]

\* addOperation(operation): the new state and the returned operation.
addOperation(s, operation, ts, id, obj) ==
    LET sliced == Slice0(s.operations, s.currentIndex + 1)
        pushed == Append(sliced, StoredOperation(operation, ts, id, obj))
        idx    == s.currentIndex + 1
        over   == Len(pushed) > maxOperations
        ops2   == IF over THEN Tail(pushed) ELSE pushed
        idx2   == IF over THEN idx - 1 ELSE idx
    IN  [state |-> [operations |-> ops2, currentIndex |-> idx2],
         ret   |-> At(ops2, idx2)]

\* undo that removes the undone entry from the array.
undoPop(s) ==
    IF s.currentIndex < 0
    THEN [state |-> s, ret |-> Null]
    ELSE [state |-> [operations |-> Slice0(s.operations, s.currentIndex),
                     currentIndex |-> s.currentIndex - 1],
          ret   |-> At(s.operations, s.currentIndex)]

\* undo()
undo(s) ==
    IF s.currentIndex < 0
    THEN [state |-> s, ret |-> Null]
    ELSE [state |-> [s EXCEPT !.currentIndex = s.currentIndex - 1],
          ret   |-> At(s.operations, s.currentIndex)]

\* redo that moves the cursor to the end of the log.
redoToEnd(s) ==
    IF s.currentIndex >= Len(s.operations) - 1
    THEN [state |-> s, ret |-> Null]
    ELSE [state |-> [s EXCEPT !.currentIndex = Len(s.operations) - 1],
          ret   |-> At(s.operations, Len(s.operations) - 1)]

\* redo()
redo(s) ==
    IF s.currentIndex >= Len(s.operations) - 1
    THEN [state |-> s, ret |-> Null]
    ELSE [state |-> [s EXCEPT !.currentIndex = s.currentIndex + 1],
          ret   |-> At(s.operations, s.currentIndex + 1)]

\* getActiveOperations()
getActiveOperations(s) == Slice0(s.operations, s.currentIndex + 1)

\* getFullState that returns the whole array, redo tail included.
getFullStateWholeLog(s) ==
    [operations |-> s.operations, currentIndex |-> s.currentIndex]

\* getFullState()
getFullState(s) ==
    [operations |-> getActiveOperations(s), currentIndex |-> s.currentIndex]

\* clear that resets the cursor and keeps the array.
clearCursorOnly(s) == [operations |-> s.operations, currentIndex |-> -1]

\* clear()
clear(s) == [operations |-> <<>>, currentIndex |-> -1]

\* canUndo()
canUndo(s) == s.currentIndex >= 0

\* canRedo with the bound off by one.
canRedoOffByOne(s) == s.currentIndex <= Len(s.operations) - 1

\* canRedo()
canRedo(s) == s.currentIndex < Len(s.operations) - 1

\* ------------------------------------------------------------- RoomManager
\* Room ids a join may name; "" stands for a missing (falsy) roomId.
RoomIds == {"default", "a"}
\* WebSocket connections accepted by the server.
Conns == {1, 2}
\* A user id is a tuple; <<>> stands for null (no id, falsy).
NoId == <<>>
NoRoom == [tag |-> "noroom"]
\* cursor: { x: 0, y: 0 } and the positions a cursor message may carry.
Origin == [x |-> 0, y |-> 0]
Points == {[x |-> 1, y |-> 1]}

\* generateUserId(): `user_${Date.now()}_${random}`, taken as an id no earlier
\* call has returned: n is the number of this call.
generateUserId(n) == <<"user", n>>

\* A Map keeps insertion order: a sequence of values with unique ids.
MapHas(m, id) == \E i \in 1..Len(m) : m[i].id = id
MapGet(m, id) == m[CHOOSE i \in 1..Len(m) : m[i].id = id]
MapSet(m, id, v) ==
    IF MapHas(m, id)
    THEN [i \in 1..Len(m) |-> IF m[i].id = id THEN v ELSE m[i]]
    ELSE Append(m, v)
MapDelete(m, id) == SelectSeq(m, LAMBDA e : e.id # id)

\* The room object getRoom creates (createdAt is written and never read).
NewRoom(roomId) ==
    [id |-> roomId, users |-> <<>>, drawingState |-> NewDrawingState]

\* getRoom without the has() test: every call stores a new room.
getRoomAlwaysNew(rms, roomId) == [rms EXCEPT ![roomId] = NewRoom(roomId)]

\* getRoom(roomId): the rooms map after the call; the room is at roomId.
getRoom(rms, roomId) ==
    IF rms[roomId] = NoRoom THEN [rms EXCEPT ![roomId] = NewRoom(roomId)] ELSE rms

\* The palette of generateUserColor.
colors ==
    <<"#FF6B6B", "#4ECDC4", "#45B7D1", "#FFA07A",
      "#98D8C8", "#F7DC6F", "#BB8FCE", "#85C1E2",
      "#F8B739", "#52B788", "#E63946", "#457B9D">>

\* generateUserColor that stays on the last palette entry instead of wrapping.
generateUserColorNoWrap(index) == <<colors[Min(index, Len(colors) - 1) + 1]>>

\* generateUserColor(index): colors[index % colors.length]
generateUserColor(index) == <<colors[(index % Len(colors)) + 1]>>

\* addUser(roomId, userId, ws, userData): the rooms map and the user object
\* (joinedAt is written and never read).
addUser(rms, roomId, userId, ws, userData) ==
    LET rms1 == getRoom(rms, roomId)
        room == rms1[roomId]
        size == Len(room.users)
        user == [id     |-> userId,
                 ws     |-> ws,
                 name   |-> IF userData.name # "" THEN <<userData.name>>
                            ELSE <<"User", size + 1>>,
                 color  |-> IF userData.color # "" THEN <<userData.color>>
                            ELSE generateUserColor(size),
                 cursor |-> Origin]
    IN  [rooms |-> [rms1 EXCEPT ![roomId].users = MapSet(@, userId, user)],
         user  |-> user]

\* removeUser that never schedules the clean-up of an empty room.
removeUserNoTimer(rms, tms, roomId, userId) ==
    IF rms[roomId] = NoRoom
    THEN [rooms |-> rms, timers |-> tms]
    ELSE [rooms  |-> [rms EXCEPT ![roomId].users = MapDelete(@, userId)],
          timers |-> tms]

\* removeUser that starts the log afresh when the last participant leaves.
removeUserResetsLog(rms, tms, roomId, userId) ==
    IF rms[roomId] = NoRoom
    THEN [rooms |-> rms, timers |-> tms]
    ELSE LET users == MapDelete(rms[roomId].users, userId)
         IN  [rooms  |-> [rms EXCEPT ![roomId].users = users,
                                     ![roomId].drawingState =
                                         IF Len(users) = 0 THEN NewDrawingState ELSE @],
              timers |-> IF Len(users) = 0 THEN Append(tms, roomId) ELSE tms]

\* removeUser(roomId, userId): the rooms map and the pending timers.
removeUser(rms, tms, roomId, userId) ==
    IF rms[roomId] = NoRoom
    THEN [rooms |-> rms, timers |-> tms]
    ELSE LET users == MapDelete(rms[roomId].users, userId)
         IN  [rooms  |-> [rms EXCEPT ![roomId].users = users],
              timers |-> IF Len(users) = 0 THEN Append(tms, roomId) ELSE tms]

\* getRoomUsers(roomId): the roster without the sockets.
getRoomUsers(rms, roomId) ==
    IF rms[roomId] = NoRoom THEN <<>>
    ELSE [i \in 1..Len(rms[roomId].users) |->
            [id     |-> rms[roomId].users[i].id,
             name   |-> rms[roomId].users[i].name,
             color  |-> rms[roomId].users[i].color,
             cursor |-> rms[roomId].users[i].cursor]]

\* updateUserCursor without the has() test: the cursor is stored under the id.
updateUserCursorNoCheck(rms, roomId, userId, cursor) ==
    IF rms[roomId] # NoRoom
    THEN [rms EXCEPT ![roomId].users =
            MapSet(@, userId,
                   IF MapHas(@, userId)
                   THEN [MapGet(@, userId) EXCEPT !.cursor = cursor]
                   ELSE [id |-> userId, ws |-> 0, name |-> <<"">>,
                         color |-> <<"">>, cursor |-> cursor])]
    ELSE rms

\* updateUserCursor(roomId, userId, cursor)
updateUserCursor(rms, roomId, userId, cursor) ==
    IF rms[roomId] # NoRoom /\ MapHas(rms[roomId].users, userId)
    THEN [rms EXCEPT ![roomId].users =
            MapSet(@, userId, [MapGet(@, userId) EXCEPT !.cursor = cursor])]
    ELSE rms

\* Events sent during one step, per receiving connection, in sending order.
EmptySends == [c \in Conns |-> <<>>]
\* ws.send(message)
SendTo(s, c, message) == [s EXCEPT ![c] = Append(@, message)]
Repeat(message, n) == [k \in 1..n |-> message]

\* broadcast without the sender test.
broadcastToSenderToo(s, rms, cn, roomId, senderId, message) ==
    IF rms[roomId] = NoRoom THEN s
    ELSE LET users == rms[roomId].users
             hits(c) == {i \in 1..Len(users) :
                            /\ users[i].ws = c
                            /\ cn[c].state = "open"}
         IN  [c \in Conns |-> s[c] \o Repeat(message, Cardinality(hits(c)))]

\* broadcast(roomId, senderId, message): every entry of room.users other than
\* senderId whose socket is OPEN is sent the message.
broadcast(s, rms, cn, roomId, senderId, message) ==
    IF rms[roomId] = NoRoom THEN s
    ELSE LET users == rms[roomId].users
             hits(c) == {i \in 1..Len(users) :
                            /\ users[i].id # senderId
                            /\ users[i].ws = c
                            /\ cn[c].state = "open"}
         IN  [c \in Conns |-> s[c] \o Repeat(message, Cardinality(hits(c)))]

\* broadcastAll without the readyState test.
broadcastAllIgnoreState(s, rms, cn, roomId, message) ==
    IF rms[roomId] = NoRoom THEN s
    ELSE LET users == rms[roomId].users
             hits(c) == {i \in 1..Len(users) : users[i].ws = c}
         IN  [c \in Conns |-> s[c] \o Repeat(message, Cardinality(hits(c)))]

\* broadcastAll that stops after the first entry.
broadcastAllFirstOnly(s, rms, cn, roomId, message) ==
    IF rms[roomId] = NoRoom THEN s
    ELSE LET users == rms[roomId].users
             hits(c) == {i \in 1..Min(1, Len(users)) :
                            /\ users[i].ws = c
                            /\ cn[c].state = "open"}
         IN  [c \in Conns |-> s[c] \o Repeat(message, Cardinality(hits(c)))]

\* broadcastAll(roomId, message)
broadcastAll(s, rms, cn, roomId, message) ==
    IF rms[roomId] = NoRoom THEN s
    ELSE LET users == rms[roomId].users
             hits(c) == {i \in 1..Len(users) :
                            /\ users[i].ws = c
                            /\ cn[c].state = "open"}
         IN  [c \in Conns |-> s[c] \o Repeat(message, Cardinality(hits(c)))]

\* ------------------------------------------------- wss.on('connection', ...)
\* The step just taken: its kind, the connection, and the closure's userId
\* and roomId as they were before it.
Step(type, c) ==
    [type |-> type, conn |-> c, userId |-> conns[c].userId, roomId |-> conns[c].roomId]

PublicUser(user) == [id |-> user.id, name |-> user.name, color |-> user.color]

ServerInit ==
    /\ rooms = [r \in RoomIds |-> NoRoom]
    /\ conns = [c \in Conns |-> [state |-> "new", userId |-> NoId, roomId |-> "default"]]
    /\ timers = <<>>
    /\ nextUid = 0
    /\ sent = EmptySends
    /\ handled = [type |-> "start", conn |-> 0, userId |-> NoId, roomId |-> "default"]

\* A client connects: the connection callback runs with userId = null and
\* roomId = 'default'.
Connect(c) ==
    /\ conns[c].state = "new"
    /\ conns' = [conns EXCEPT ![c].state = "open"]
    /\ sent' = EmptySends
    /\ handled' = Step("connection", c)
    /\ UNCHANGED <<rooms, timers, nextObj, nextUid>>

\* handleJoin(ws, data)
HandleJoin(c, data) ==
      LET uid    == IF data.userId # NoId THEN data.userId ELSE generateUserId(nextUid + 1)
          rid    == IF data.roomId # "" THEN data.roomId ELSE "default"
          added  == addUser(rooms, rid, uid, c, [name |-> data.name, color |-> data.color])
          rms1   == getRoom(added.rooms, rid)
          initEv == [type         |-> "init",
                     userId       |-> uid,
                     user         |-> PublicUser(added.user),
                     users        |-> getRoomUsers(rms1, rid),
                     drawingState |-> getFullState(rms1[rid].drawingState)]
          joinEv == [type  |-> "user_joined",
                     user  |-> PublicUser(added.user),
                     users |-> getRoomUsers(rms1, rid)]
      IN  /\ rooms' = rms1
          /\ conns' = [conns EXCEPT ![c].userId = uid, ![c].roomId = rid]
          /\ sent' = broadcast(SendTo(EmptySends, c, initEv), rms1, conns, rid, uid, joinEv)
          /\ nextUid' = IF data.userId # NoId THEN nextUid ELSE nextUid + 1
          /\ handled' = Step("join", c)
          /\ UNCHANGED <<timers, nextObj>>

\* handleDraw that copies the fields of the message into the operation.
HandleDrawSpreadsMessage(c, data) ==
    /\ nextObj < MaxDraws
    /\ \E now \in Times, rnd \in ServerRandoms :
         LET uid  == conns[c].userId
             rid  == conns[c].roomId
             rms1 == getRoom(rooms, rid)
             r    == addOperation(rms1[rid].drawingState,
                                  [type   |-> "draw",
                                   userId |-> IF "userId" \in DOMAIN data
                                              THEN data.userId ELSE uid,
                                   data   |-> data.data],
                                  now, generateOperationId(now, rnd), nextObj + 1)
             rms2 == [rms1 EXCEPT ![rid].drawingState = r.state]
         IN  /\ rooms' = rms2
             /\ sent' = broadcast(EmptySends, rms2, conns, rid, uid,
                                  [type |-> "draw", operation |-> r.ret])
    /\ nextObj' = nextObj + 1
    /\ handled' = Step("draw", c)
    /\ UNCHANGED <<conns, timers, nextUid>>

\* handleDraw(data)
HandleDraw(c, data) ==
    /\ nextObj < MaxDraws
    /\ \E now \in Times, rnd \in ServerRandoms :
         LET uid  == conns[c].userId
             rid  == conns[c].roomId
             rms1 == getRoom(rooms, rid)
             r    == addOperation(rms1[rid].drawingState,
                                  [type |-> "draw", userId |-> uid, data |-> data.data],
                                  now, generateOperationId(now, rnd), nextObj + 1)
             rms2 == [rms1 EXCEPT ![rid].drawingState = r.state]
         IN  /\ rooms' = rms2
             /\ sent' = broadcast(EmptySends, rms2, conns, rid, uid,
                                  [type |-> "draw", operation |-> r.ret])
    /\ nextObj' = nextObj + 1
    /\ handled' = Step("draw", c)
    /\ UNCHANGED <<conns, timers, nextUid>>

\* handleCursor(data)
HandleCursor(c, data) ==
    LET uid  == conns[c].userId
        rid  == conns[c].roomId
        rms1 == updateUserCursor(rooms, rid, uid, data.cursor)
    IN  /\ rooms' = rms1
        /\ sent' = broadcast(EmptySends, rms1, conns, rid, uid,
                             [type |-> "cursor", userId |-> uid, cursor |-> data.cursor])
        /\ handled' = Step("cursor", c)
        /\ UNCHANGED <<conns, timers, nextObj, nextUid>>

\* The event with the whole operations array instead of the active ones.
HistoryEventFullLog(type, operation, s) ==
    [type       |-> type,
     operation  |-> operation,
     operations |-> s.operations,
     canUndo    |-> canUndo(s),
     canRedo    |-> canRedo(s)]

\* The event handleUndo and handleRedo broadcast.
HistoryEvent(type, operation, s) ==
    [type       |-> type,
     operation  |-> operation,
     operations |-> getActiveOperations(s),
     canUndo    |-> canUndo(s),
     canRedo    |-> canRedo(s)]

\* handleUndo that only undoes an operation the sender authored.
HandleUndoOwnOnly(c) ==
    LET rid  == conns[c].roomId
        rms1 == getRoom(rooms, rid)
        top  == At(rms1[rid].drawingState.operations,
                   rms1[rid].drawingState.currentIndex)
        own  == Truthy(top) /\ top.userId = conns[c].userId
        r    == IF own THEN undo(rms1[rid].drawingState)
                ELSE [state |-> rms1[rid].drawingState, ret |-> Null]
        rms2 == [rms1 EXCEPT ![rid].drawingState = r.state]
    IN  /\ rooms' = rms2
        /\ sent' = IF Truthy(r.ret)
                   THEN broadcastAll(EmptySends, rms2, conns, rid,
                                     HistoryEvent("undo", r.ret, r.state))
                   ELSE EmptySends
        /\ handled' = Step("undo", c)
        /\ UNCHANGED <<conns, timers, nextObj, nextUid>>

\* handleUndo(data)
HandleUndo(c) ==
    LET rid  == conns[c].roomId
        rms1 == getRoom(rooms, rid)
        r    == undo(rms1[rid].drawingState)
        rms2 == [rms1 EXCEPT ![rid].drawingState = r.state]
    IN  /\ rooms' = rms2
        /\ sent' = IF Truthy(r.ret)
                   THEN broadcastAll(EmptySends, rms2, conns, rid,
                                     HistoryEvent("undo", r.ret, r.state))
                   ELSE EmptySends
        /\ handled' = Step("undo", c)
        /\ UNCHANGED <<conns, timers, nextObj, nextUid>>

\* handleRedo(data)
HandleRedo(c) ==
    LET rid  == conns[c].roomId
        rms1 == getRoom(rooms, rid)
        r    == redo(rms1[rid].drawingState)
        rms2 == [rms1 EXCEPT ![rid].drawingState = r.state]
    IN  /\ rooms' = rms2
        /\ sent' = IF Truthy(r.ret)
                   THEN broadcastAll(EmptySends, rms2, conns, rid,
                                     HistoryEvent("redo", r.ret, r.state))
                   ELSE EmptySends
        /\ handled' = Step("redo", c)
        /\ UNCHANGED <<conns, timers, nextObj, nextUid>>

\* handleClear(data)
HandleClear(c) ==
    LET rid  == conns[c].roomId
        rms1 == getRoom(rooms, rid)
        rms2 == [rms1 EXCEPT ![rid].drawingState = clear(@)]
    IN  /\ rooms' = rms2
        /\ sent' = broadcastAll(EmptySends, rms2, conns, rid, [type |-> "clear"])
        /\ handled' = Step("clear", c)
        /\ UNCHANGED <<conns, timers, nextObj, nextUid>>

\* The default branch answering the sender with an error event.
HandleUnknownReplies(c) ==
    /\ sent' = SendTo(EmptySends, c,
                      [type |-> "error", message |-> "Failed to process message"])
    /\ handled' = Step("unknown", c)
    /\ UNCHANGED <<rooms, conns, timers, nextObj, nextUid>>

\* switch default: the type is logged and nothing else happens.
HandleUnknown(c) ==
    /\ sent' = EmptySends
    /\ handled' = Step("unknown", c)
    /\ UNCHANGED <<rooms, conns, timers, nextObj, nextUid>>

\* The catch branch sending the error event to every connection.
HandleUndecodableToAll(c) ==
    /\ sent' = [d \in Conns |->
                  <<[type |-> "error", message |-> "Failed to process message"]>>]
    /\ handled' = Step("undecodable", c)
    /\ UNCHANGED <<rooms, conns, timers, nextObj, nextUid>>

\* catch: JSON.parse threw (or data was null); an error event goes back.
HandleUndecodable(c) ==
    /\ sent' = SendTo(EmptySends, c,
                      [type |-> "error", message |-> "Failed to process message"])
    /\ handled' = Step("undecodable", c)
    /\ UNCHANGED <<rooms, conns, timers, nextObj, nextUid>>

\* Messages a connection may deliver: a join without any field and a join
\* that supplies userId, roomId, name and color.
JoinMessages ==
    {[type |-> "join", userId |-> NoId, roomId |-> "", name |-> "", color |-> ""],
     [type |-> "join", userId |-> <<"u1">>, roomId |-> "a", name |-> "Ann",
      color |-> "#111"]}
\* Fields a raw connection may add to its draw message beside type and data.
ForgedFields == [id |-> <<"forged">>, timestamp |-> 0, userId |-> <<"mallory">>]
\* Draw messages: the one a page sends, and a raw one whose stroke has no
\* points and which names an id, a timestamp and a userId of its own.
DrawMessages ==
    {[type |-> "draw", data |-> s] : s \in {t \in Strokes : t.points >= 1}}
    \cup {[type |-> "draw", data |-> s, id |-> ForgedFields.id,
           timestamp |-> ForgedFields.timestamp, userId |-> ForgedFields.userId] :
             s \in {t \in Strokes : t.points = 0}}
CursorMessages == [type : {"cursor"}, cursor : Points]

\* ws.on('message'): the switch on data.type.
OnMessage(c, data) ==
    /\ conns[c].state = "open"
    /\ \/ data.type = "join" /\ HandleJoin(c, data)
       \/ data.type = "draw" /\ HandleDraw(c, data)
       \/ data.type = "cursor" /\ HandleCursor(c, data)
       \/ data.type = "undo" /\ HandleUndo(c)
       \/ data.type = "redo" /\ HandleRedo(c)
       \/ data.type = "clear" /\ HandleClear(c)
       \/ data.type = "ping" /\ HandleUnknown(c)
       \/ data.type = "undecodable" /\ HandleUndecodable(c)

PlainMessages == {[type |-> t] : t \in {"undo", "redo", "clear", "ping", "undecodable"}}

\* The socket leaves the OPEN state; the close callback has not run yet.
TransportClose(c) ==
    /\ conns[c].state = "open"
    /\ conns' = [conns EXCEPT ![c].state = "closing"]
    /\ sent' = EmptySends
    /\ handled' = Step("closing", c)
    /\ UNCHANGED <<rooms, timers, nextObj, nextUid>>

\* ws.on('close')
OnClose(c) ==
    /\ conns[c].state = "closing"
    /\ LET uid == conns[c].userId
           rid == conns[c].roomId
           cn1 == [conns EXCEPT ![c].state = "closed"]
           removed == removeUser(rooms, timers, rid, uid)
       IN  /\ conns' = cn1
           /\ IF uid # NoId /\ rid # ""
              THEN /\ rooms' = removed.rooms
                   /\ timers' = removed.timers
                   /\ sent' = broadcast(EmptySends, removed.rooms, cn1, rid, uid,
                                        [type   |-> "user_left",
                                         userId |-> uid,
                                         users  |-> getRoomUsers(removed.rooms, rid)])
              ELSE /\ UNCHANGED <<rooms, timers>>
                   /\ sent' = EmptySends
    /\ handled' = Step("close", c)
    /\ UNCHANGED <<nextObj, nextUid>>

\* The clean-up callback without the test that the room is still empty.
TimerFireUnconditional ==
    /\ timers # <<>>
    /\ rooms' = [rooms EXCEPT ![Head(timers)] = NoRoom]
    /\ timers' = Tail(timers)
    /\ sent' = EmptySends
    /\ handled' = [type |-> "timer", conn |-> 0, userId |-> NoId, roomId |-> Head(timers)]
    /\ UNCHANGED <<conns, nextObj, nextUid>>

\* The setTimeout callback of removeUser; equal delays fire oldest first.
TimerFire ==
    /\ timers # <<>>
    /\ LET rid == Head(timers)
       IN  rooms' = IF rooms[rid] # NoRoom /\ Len(rooms[rid].users) = 0
                    THEN [rooms EXCEPT ![rid] = NoRoom]
                    ELSE rooms
    /\ timers' = Tail(timers)
    /\ sent' = EmptySends
    /\ handled' = [type |-> "timer", conn |-> 0, userId |-> NoId, roomId |-> Head(timers)]
    /\ UNCHANGED <<conns, nextObj, nextUid>>

\* ------------------------------------------- WebSocketManager: connecting
\* this.maxReconnectAttempts and this.reconnectDelay
maxReconnectAttempts == 5
reconnectDelay == 1000

RemoveAt(seq, i) == SubSeq(seq, 1, i - 1) \o SubSeq(seq, i + 1, Len(seq))

\* Math.pow(2, n)
RECURSIVE Pow2(_)
Pow2(n) == IF n <= 0 THEN 1 ELSE 2 * Pow2(n - 1)

\* new WebSocketManager(): sockets holds the WebSocket objects the page has
\* created that are not CLOSED yet, oldest first; ws is the index of this.ws in
\* sockets, or 0 when this.ws is null or a socket that is CLOSED (send,
\* isConnected and disconnect treat the two alike); joins counts the join
\* messages sent on a socket; pending holds the delays of the reconnect timers
\* not yet fired; status is the last value given to onConnectionChange; lost
\* and switches count connection losses and join-button clicks.
NewManager ==
    [ws |-> 0, reconnectAttempts |-> 0, status |-> "none", roomId |-> "default",
     sockets |-> <<>>, pending |-> <<>>, lost |-> 0, switches |-> 0]

\* connect(url): a new WebSocket, CONNECTING, becomes this.ws.
connect(m) ==
    [m EXCEPT !.sockets = Append(@, [state |-> "connecting", joins |-> 0]),
              !.ws = Len(m.sockets) + 1]

\* attemptReconnect that allows one attempt more.
attemptReconnectOneMore(m) ==
    IF m.reconnectAttempts <= maxReconnectAttempts
    THEN [m EXCEPT !.reconnectAttempts = @ + 1,
                   !.pending = Append(@, reconnectDelay * Pow2(m.reconnectAttempts))]
    ELSE [m EXCEPT !.status = "failed"]

\* attemptReconnect(url)
attemptReconnect(m) ==
    IF m.reconnectAttempts < maxReconnectAttempts
    THEN [m EXCEPT !.reconnectAttempts = @ + 1,
                   !.pending = Append(@, reconnectDelay * Pow2(m.reconnectAttempts))]
    ELSE [m EXCEPT !.status = "failed"]

\* send(join) as called by onopen: sent on this.ws if that socket is OPEN,
\* dropped otherwise.
sendJoin(m) ==
    IF m.ws # 0 /\ m.sockets[m.ws].state = "open"
    THEN [m EXCEPT !.sockets[m.ws].joins = Min(@ + 1, 2)]
    ELSE m

\* ws.onopen of socket s
onopen(m, s) ==
    sendJoin([m EXCEPT !.sockets[s].state = "open",
                       !.reconnectAttempts = 0,
                       !.status = "connected"])

\* ws.onclose of socket s, which is CLOSED from now on.
onclose(m, s) ==
    attemptReconnect([m EXCEPT !.sockets = RemoveAt(@, s),
                               !.ws = IF @ = s THEN 0 ELSE IF @ > s THEN @ - 1 ELSE @,
                               !.status = "disconnected"])

\* disconnect(): this.ws.close() and this.ws = null; close() on a socket that
\* is CLOSED does nothing.
disconnect(m) ==
    IF m.ws = 0 THEN m
    ELSE [m EXCEPT !.sockets[m.ws].state = "closing", !.ws = 0]

\* -------------------------------------------------------- browser client
\* WebSocketManager (userId, roomId) and CanvasManager (isDrawing,
\* currentStroke) of one page; canvas is the sequence of visible strokes
\* painted since the canvas was last cleared, painted tells whether the stroke
\* in progress has a painted segment on it, received lists the operations of
\* the draw events handled so far. undoDisabled and redoDisabled are the
\* disabled flags of undoBtn and redoBtn; onInit sets both before a page is
\* joined.
NewClient ==
    [userId |-> NoId, roomId |-> "default", canvas |-> <<>>, isDrawing |-> FALSE,
     currentStroke |-> Null, painted |-> FALSE, received |-> <<>>,
     undoDisabled |-> TRUE, redoDisabled |-> TRUE]

NetInit ==
    /\ budget = 0
    /\ inbox = [c \in Conns |-> <<>>]
    /\ outbox = [c \in Conns |-> <<>>]
    /\ client = [c \in Conns |-> NewClient]
    /\ due = [c \in Conns |-> <<>>]
    /\ wsm = NewManager

HarnessInit ==
    /\ ds = NewDrawingState
    /\ last = [kind |-> "new", beforeIndex |-> -1, ret |-> Undefined]
    /\ prev = [kind |-> "new", beforeIndex |-> -1, ret |-> Undefined]
    /\ appended = <<>>
    /\ onlyAppends = TRUE
    /\ cleared = {}

Init == ServerInit /\ NetInit /\ HarnessInit /\ nextObj = 0

\* A connection delivers a message to ws.on('message').
Arrives == budget < MaxMessages /\ budget' = budget + 1

ServerOnly == UNCHANGED <<budget, logVars, netVars>>

Next ==
    \/ \E c \in Conns : Connect(c) /\ ServerOnly
    \/ \E c \in Conns, data \in JoinMessages :
         Arrives /\ OnMessage(c, data) /\ UNCHANGED <<logVars, netVars>>
    \/ \E c \in Conns, data \in DrawMessages :
         Arrives /\ OnMessage(c, data) /\ UNCHANGED <<logVars, netVars>>
    \/ \E c \in Conns, data \in CursorMessages :
         Arrives /\ OnMessage(c, data) /\ UNCHANGED <<logVars, netVars>>
    \/ \E c \in Conns, data \in PlainMessages :
         Arrives /\ OnMessage(c, data) /\ UNCHANGED <<logVars, netVars>>
    \/ \E c \in Conns : TransportClose(c) /\ ServerOnly
    \/ \E c \in Conns : OnClose(c) /\ ServerOnly
    \/ TimerFire /\ ServerOnly

Spec == Init /\ [][Next]_vars

\* The stroke a page draws: its pen, and one point from startDrawing.
PenOf(c) == IF c = 1 THEN "p1" ELSE "p2"
\* generateUserName(): one of the adjective-noun names.
UserNames == {"Happy Painter"}

\* WebSocketManager.send(data): dropped unless the socket is OPEN.
ClientSend(ib, c, data) ==
    IF conns[c].state = "open" THEN [ib EXCEPT ![c] = Append(@, data)] ELSE ib

\* CanvasManager.drawStroke(stroke): a stroke without points returns early and
\* a stroke of one point paints nothing.
drawStroke(canvas, stroke) ==
    IF stroke.points >= 2 THEN Append(canvas, stroke.pen) ELSE canvas

\* CanvasManager.redrawFromHistory(operations): clear, then drawStroke for
\* every operation of type 'draw' that has data.
RECURSIVE redrawFrom(_, _)
redrawFrom(canvas, operations) ==
    IF operations = <<>> THEN canvas
    ELSE redrawFrom(IF Head(operations).type = "draw"
                    THEN drawStroke(canvas, Head(operations).data)
                    ELSE canvas,
                    Tail(operations))
redrawFromHistory(operations) == redrawFrom(<<>>, operations)

\* Strokes begun and not yet handled by the server.
PendingDraws ==
    Cardinality({c \in Conns : client[c].isDrawing})
    + Cardinality({<<c, i>> \in Conns \X (1..MaxGestures) :
                      i <= Len(inbox[c]) /\ inbox[c][i].type = "draw"})

\* wsManager.connect(url) succeeds: the server's connection callback runs and
\* ws.onopen sends the join message.
ClientOpen(c) ==
    /\ Connect(c)
    /\ \E name \in UserNames :
         inbox' = [inbox EXCEPT ![c] =
                     Append(@, [type |-> "join", userId |-> client[c].userId,
                                roomId |-> client[c].roomId, name |-> name,
                                color |-> ""])]
    /\ UNCHANGED <<budget, outbox, client, due>>

\* handleDrawStart: mousedown or touchstart on the canvas.
HandleDrawStart(c) ==
    /\ budget < MaxGestures
    /\ nextObj + PendingDraws < MaxDraws
    /\ ~client[c].isDrawing
    /\ budget' = budget + 1
    /\ client' = [client EXCEPT ![c].isDrawing = TRUE,
                                ![c].currentStroke = [pen |-> PenOf(c), points |-> 1],
                                ![c].painted = FALSE]
    /\ UNCHANGED <<serverVars, nextObj, inbox, outbox, due>>

\* handleDrawMove sending the stroke so far with every point added.
HandleDrawMoveStreams(c) ==
    /\ client[c].isDrawing
    /\ client' = [client EXCEPT
                    ![c].currentStroke.points = Min(@ + 1, 2),
                    ![c].canvas = IF client[c].painted THEN @ ELSE Append(@, PenOf(c)),
                    ![c].painted = TRUE]
    /\ inbox' = ClientSend(inbox, c, [type |-> "draw", data |-> client'[c].currentStroke])
    /\ UNCHANGED <<serverVars, nextObj, budget, outbox, due>>

\* handleDrawMove while a stroke is in progress: CanvasManager.draw adds a
\* point and paints the segment; points counts up to "two or more". The
\* cursor report of the move is throttled away.
HandleDrawMove(c) ==
    /\ client[c].isDrawing
    /\ client' = [client EXCEPT
                    ![c].currentStroke.points = Min(@ + 1, 2),
                    ![c].canvas = IF client[c].painted THEN @ ELSE Append(@, PenOf(c)),
                    ![c].painted = TRUE]
    /\ UNCHANGED <<serverVars, nextObj, budget, inbox, outbox, due>>

\* handleDrawMove outside the throttle window: sendCursor sends the position.
HandleCursorMove(c) ==
    /\ budget < MaxGestures
    /\ budget' = budget + 1
    /\ \E p \in Points :
         inbox' = ClientSend(inbox, c, [type |-> "cursor", cursor |-> p])
    /\ client' = IF client[c].isDrawing
                 THEN [client EXCEPT
                         ![c].currentStroke.points = Min(@ + 1, 2),
                         ![c].canvas = IF client[c].painted THEN @
                                       ELSE Append(@, PenOf(c)),
                         ![c].painted = TRUE]
                 ELSE client
    /\ UNCHANGED <<serverVars, nextObj, outbox, due>>

\* handleDrawEnd: stopDrawing returns the stroke and sendDraw sends it.
HandleDrawEnd(c) ==
    /\ client[c].isDrawing
    /\ inbox' = ClientSend(inbox, c, [type |-> "draw", data |-> client[c].currentStroke])
    /\ client' = [client EXCEPT ![c].isDrawing = FALSE,
                                ![c].currentStroke = Null,
                                ![c].painted = FALSE,
                                ![c].undoDisabled = FALSE]
    /\ UNCHANGED <<serverVars, nextObj, budget, outbox, due>>

\* The undo button or Ctrl+Z, the redo button or Ctrl+Y, the confirmed clear
\* button: sendUndo, sendRedo, sendClear.
Click(c, type) ==
    /\ budget < MaxGestures
    /\ budget' = budget + 1
    /\ inbox' = ClientSend(inbox, c, [type |-> type])
    /\ UNCHANGED <<serverVars, nextObj, outbox, client, due>>

\* WebSocketManager.handleMessage(data) with the handlers main.js installs.
handleMessage(cl, data) ==
    CASE data.type = "init" ->
           [cl EXCEPT !.userId = data.userId,
                      !.canvas = redrawFromHistory(data.drawingState.operations),
                      !.painted = FALSE,
                      !.undoDisabled = ~(Len(data.drawingState.operations) > 0),
                      !.redoDisabled = TRUE]
      [] data.type = "draw" ->
           IF Truthy(data.operation)
           THEN [cl EXCEPT !.canvas = drawStroke(@, data.operation.data),
                           !.received = Append(@, data.operation.obj),
                           !.undoDisabled = FALSE]
           ELSE cl
      [] data.type \in {"undo", "redo"} ->
           [cl EXCEPT !.canvas = redrawFromHistory(data.operations),
                      !.painted = FALSE,
                      !.undoDisabled = ~data.canUndo,
                      !.redoDisabled = ~data.canRedo]
      [] data.type = "clear" ->
           [cl EXCEPT !.canvas = <<>>, !.painted = FALSE,
                      !.undoDisabled = TRUE, !.redoDisabled = TRUE]
      [] OTHER -> cl

\* ws.onmessage: the oldest event in flight to the page is handled.
ClientReceive(c) ==
    /\ outbox[c] # <<>>
    /\ client' = [client EXCEPT ![c] = handleMessage(@, Head(outbox[c]))]
    /\ outbox' = [outbox EXCEPT ![c] = Tail(@)]
    /\ UNCHANGED <<serverVars, nextObj, budget, inbox, due>>

\* Connections that hold an entry of the room other than the sender's.
OtherParticipants(rms, roomId, senderId) ==
    IF rms[roomId] = NoRoom THEN {}
    ELSE {rms[roomId].users[i].ws :
            i \in {j \in 1..Len(rms[roomId].users) : rms[roomId].users[j].id # senderId}}

\* The server handles the oldest message in flight from a connection; what it
\* sends joins the events in flight.
Deliver(c) ==
    /\ inbox[c] # <<>>
    /\ OnMessage(c, Head(inbox[c]))
    /\ inbox' = [inbox EXCEPT ![c] = Tail(@)]
    /\ outbox' = [d \in Conns |-> outbox[d] \o sent'[d]]
    /\ due' = IF Head(inbox[c]).type = "draw"
              THEN [d \in Conns |->
                      IF d \in OtherParticipants(rooms', conns[c].roomId, conns[c].userId)
                      THEN Append(due[d], nextObj')
                      ELSE due[d]]
              ELSE due
    /\ UNCHANGED <<budget, client>>

SyncNext ==
    \/ \E c \in Conns : ClientOpen(c) /\ UNCHANGED <<logVars, wsm>>
    \/ \E c \in Conns : HandleDrawStart(c) /\ UNCHANGED <<logVars, wsm>>
    \/ \E c \in Conns : HandleDrawMove(c) /\ UNCHANGED <<logVars, wsm>>
    \/ \E c \in Conns : HandleCursorMove(c) /\ UNCHANGED <<logVars, wsm>>
    \/ \E c \in Conns : HandleDrawEnd(c) /\ UNCHANGED <<logVars, wsm>>
    \/ \E c \in Conns, t \in {"undo", "redo", "clear"} : Click(c, t) /\ UNCHANGED <<logVars, wsm>>
    \/ \E c \in Conns : Deliver(c) /\ UNCHANGED <<logVars, wsm>>
    \/ \E c \in Conns : ClientReceive(c) /\ UNCHANGED <<logVars, wsm>>

SpecSync == Init /\ [][SyncNext]_vars

\* ----------------------------------------------------- SpecLog: method calls
\* A method call as recorded for the properties: its name, the cursor before
\* it and the value it returned.
Call(kind, beforeIndex, ret) ==
    [kind |-> kind, beforeIndex |-> beforeIndex, ret |-> ret]

Objs(ops) == {ops[i].obj : i \in 1..Len(ops)}
ObjSeq(ops) == [i \in 1..Len(ops) |-> ops[i].obj]

LogInit == ServerInit /\ NetInit /\ HarnessInit /\ nextObj = 0

CallAddOperation ==
    /\ nextObj < MaxAppends
    /\ \E d \in TestStrokes, now \in Times, rnd \in RandomSuffixes :
         LET r == addOperation(ds, [type |-> "draw", userId |-> TestUser, data |-> d],
                               now, generateOperationId(now, rnd), nextObj + 1)
         IN  /\ ds' = r.state
             /\ last' = Call("addOperation", ds.currentIndex, r.ret)
             /\ appended' = Append(appended, nextObj + 1)
    /\ nextObj' = nextObj + 1
    /\ prev' = last
    /\ UNCHANGED <<onlyAppends, cleared>>

CallUndo ==
    /\ ds' = undo(ds).state
    /\ last' = Call("undo", ds.currentIndex, undo(ds).ret)
    /\ prev' = last
    /\ onlyAppends' = FALSE
    /\ UNCHANGED <<nextObj, appended, cleared>>

CallRedo ==
    /\ ds' = redo(ds).state
    /\ last' = Call("redo", ds.currentIndex, redo(ds).ret)
    /\ prev' = last
    /\ onlyAppends' = FALSE
    /\ UNCHANGED <<nextObj, appended, cleared>>

CallClear ==
    /\ ds' = clear(ds)
    /\ last' = Call("clear", ds.currentIndex, Undefined)
    /\ prev' = last
    /\ onlyAppends' = FALSE
    /\ cleared' = cleared \cup Objs(ds.operations)
    /\ UNCHANGED <<nextObj, appended>>

HarnessOnly == UNCHANGED <<serverVars, budget, netVars>>

LogNext ==
    \/ CallAddOperation /\ HarnessOnly
    \/ CallUndo /\ HarnessOnly
    \/ CallRedo /\ HarnessOnly
    \/ CallClear /\ HarnessOnly

SpecLog == LogInit /\ [][LogNext]_vars

\* ------------------------------------------- SpecRoster: addUser, removeUser
\* The room the roster calls are made on, and the colors a join may supply
\* ("" is a join without one).
RosterRoom == "default"
SuppliedColors == {"", "#111"}

RosterSize(rms) == IF rms[RosterRoom] = NoRoom THEN 0 ELSE Len(rms[RosterRoom].users)

\* Entries of the room whose color came with the join.
Colored(rms) ==
    IF rms[RosterRoom] = NoRoom THEN 0
    ELSE Cardinality({i \in 1..Len(rms[RosterRoom].users) :
                         rms[RosterRoom].users[i].color = <<"#111">>})

\* An addUser call as recorded for the properties: the size of room.users
\* before it, the userData passed and the user object returned.
RosterCall(size, userData, ret) ==
    [kind |-> "addUser", size |-> size, userData |-> userData, ret |-> ret]

\* addUser(roomId, userId, ws, userData) for a new id, or again for the id of
\* the oldest entry of the room.
CallAddUser ==
    /\ nextUid < MaxJoins
    /\ \E color \in SuppliedColors, again \in BOOLEAN :
         /\ color # "" => Colored(rooms) < MaxColored
         /\ again => /\ RosterSize(rooms) > 0
                     /\ nextUid - RosterSize(rooms) < MaxLeaves
         /\ LET uid      == IF again THEN rooms[RosterRoom].users[1].id
                            ELSE generateUserId(nextUid + 1)
                userData == [name |-> "", color |-> color]
                added    == addUser(rooms, RosterRoom, uid, 1, userData)
            IN  /\ rooms' = added.rooms
                /\ last' = RosterCall(RosterSize(rooms), userData, added.user)
    /\ nextUid' = nextUid + 1
    /\ UNCHANGED timers

\* removeUser(roomId, userId) for the oldest entry of the room.
CallRemoveUser ==
    /\ RosterSize(rooms) > 0
    /\ nextUid - RosterSize(rooms) < MaxLeaves
    /\ LET r == removeUser(rooms, timers, RosterRoom, rooms[RosterRoom].users[1].id)
       IN  /\ rooms' = r.rooms
           /\ timers' = r.timers
    /\ last' = [kind |-> "removeUser", size |-> RosterSize(rooms)]
    /\ UNCHANGED nextUid

RosterOnly ==
    UNCHANGED <<ds, nextObj, prev, appended, onlyAppends, cleared,
                conns, sent, handled, budget, netVars>>

RosterNext ==
    \/ CallAddUser /\ RosterOnly
    \/ CallRemoveUser /\ RosterOnly

SpecRoster == Init /\ [][RosterNext]_vars

\* --------------------------------------- SpecClient: one page's connections
\* main.js at load: wsManager.connect(wsUrl)
Load ==
    /\ wsm.status = "none" /\ wsm.sockets = <<>>
    /\ wsm' = connect(wsm)

\* The connection of socket s is established.
SocketOpens(s) ==
    /\ wsm.sockets[s].state = "connecting"
    /\ wsm' = onopen(wsm, s)

\* The connection attempt of socket s fails.
SocketFails(s) ==
    /\ wsm.sockets[s].state = "connecting"
    /\ wsm' = onclose(wsm, s)

\* The open socket s loses its connection.
ConnectionLost(s) ==
    /\ wsm.sockets[s].state = "open"
    /\ wsm.lost < MaxLosses
    /\ wsm' = onclose([wsm EXCEPT !.lost = @ + 1], s)

\* The close() that disconnect() called on socket s completes.
CloseCompletes(s) ==
    /\ wsm.sockets[s].state = "closing"
    /\ wsm' = onclose(wsm, s)

\* A setTimeout callback of attemptReconnect runs: connect(url).
ReconnectTimer(i) ==
    /\ i \in 1..Len(wsm.pending)
    /\ wsm' = connect([wsm EXCEPT !.pending = RemoveAt(@, i)])

\* The join button with the name of another room: disconnect(), roomId, connect().
JoinButton ==
    /\ wsm.status # "none"
    /\ wsm.switches < MaxSwitches
    /\ \E newRoom \in RoomIds \ {wsm.roomId} :
         wsm' = connect([disconnect(wsm) EXCEPT !.roomId = newRoom,
                                                !.switches = @ + 1])

ClientOnly == UNCHANGED <<logVars, serverVars, nextObj, budget, inbox, outbox, client, due>>

SocketIds == 1..Len(wsm.sockets)

ClientNext ==
    \/ Load /\ ClientOnly
    \/ \E s \in SocketIds : SocketOpens(s) /\ ClientOnly
    \/ \E s \in SocketIds : SocketFails(s) /\ ClientOnly
    \/ \E s \in SocketIds : ConnectionLost(s) /\ ClientOnly
    \/ \E s \in SocketIds : CloseCompletes(s) /\ ClientOnly
    \/ \E i \in 1..Len(wsm.pending) : ReconnectTimer(i) /\ ClientOnly
    \/ JoinButton /\ ClientOnly

SpecClient == Init /\ [][ClientNext]_vars

\* The page connects when it loads, a connection attempt ends (it succeeds or
\* fails), a close that was asked for completes, and a timer that was set fires.
SpecClientFair ==
    /\ SpecClient
    /\ WF_vars(Load /\ ClientOnly)
    /\ WF_vars(\E s \in SocketIds : (SocketOpens(s) \/ SocketFails(s)) /\ ClientOnly)
    /\ WF_vars(\E s \in SocketIds : CloseCompletes(s) /\ ClientOnly)
    /\ WF_vars(\E i \in 1..Len(wsm.pending) : ReconnectTimer(i) /\ ClientOnly)

\* ------------------------------------------------- claims on the DrawingState
ActiveObjs == ObjSeq(getActiveOperations(ds))
LastN(seq, n) == SubSeq(seq, Len(seq) - Min(n, Len(seq)) + 1, Len(seq))
Evicted == nextObj > maxOperations /\ Len(ds.operations) = maxOperations

\* C1: in every reachable state of the log the cursor satisfies
\* -1 <= currentIndex <= operations.length - 1.
C1_CursorInRange ==
    /\ -1 <= ds.currentIndex
    /\ ds.currentIndex <= Len(ds.operations) - 1

\* The cursor was walked down to -1 on a log that has evicted entries.
C1_Witness ==
    /\ Evicted
    /\ last.kind = "undo" /\ Truthy(last.ret)
    /\ ds.currentIndex = -1

\* C2: canUndo() holds exactly when the undo() called next returns an
\* operation, and canRedo() exactly when the redo() called next returns one.
C2_CanMatchesOutcome ==
    [][ /\ last'.kind = "undo" => (canUndo(ds) <=> Truthy(last'.ret))
        /\ last'.kind = "redo" => (canRedo(ds) <=> Truthy(last'.ret)) ]_vars

\* A redo that returned null followed by an undo that returned an operation,
\* on a log that has evicted entries.
C2_Witness ==
    /\ Evicted
    /\ prev.kind = "redo" /\ ~Truthy(prev.ret)
    /\ last.kind = "undo" /\ Truthy(last.ret)

\* C3 as stated: after addOperation calls only, getActiveOperations() is the
\* full sequence of appended operations in call order.
C3_Original == onlyAppends => ActiveObjs = appended

\* C3 amended: after addOperation calls only, getActiveOperations() is the
\* sequence of the last maxOperations appended operations in call order (the
\* full sequence while no more than maxOperations were appended).
C3_ActiveIsRecentAppends ==
    onlyAppends => ActiveObjs = LastN(appended, maxOperations)

\* More than maxOperations appends and nothing else.
C3_Witness ==
    /\ onlyAppends
    /\ Len(appended) > maxOperations
    /\ last.kind = "addOperation"

\* C4: from a state with currentIndex >= 0, undo() then redo() leaves
\* operations, currentIndex and the active list as they were, and redo()
\* returns the operation undo() returned.
C4_UndoRedoRestores ==
    /\ [][ last'.kind \in {"undo", "redo"} => ds'.operations = ds.operations ]_vars
    /\ []( (prev.kind = "undo" /\ prev.beforeIndex >= 0 /\ last.kind = "redo")
             => /\ ds.currentIndex = prev.beforeIndex
                /\ last.ret = prev.ret
                /\ Truthy(last.ret)
                /\ Len(getActiveOperations(ds)) = prev.beforeIndex + 1 )

\* undo() then redo() on a log that has evicted entries and a redo tail.
C4_Witness ==
    /\ Evicted
    /\ prev.kind = "undo" /\ prev.beforeIndex >= 0
    /\ last.kind = "redo"
    /\ canRedo(ds)

\* C5: addOperation drops the whole redo tail: the active list becomes the
\* previously active operations followed by the new one, and canRedo() stays
\* false (redo() returns null) until the next undo().
C5_AppendDropsRedoTail ==
    /\ [][ last'.kind = "addOperation" =>
             /\ ~canRedo(ds')
             /\ ~Truthy(redo(ds').ret)
             /\ canRedo(ds) =>
                  getActiveOperations(ds') =
                      Append(getActiveOperations(ds), last'.ret) ]_vars
    /\ [][ (~canRedo(ds) /\ last'.kind # "undo") =>
             (~canRedo(ds') /\ ~Truthy(redo(ds').ret)) ]_vars

\* Three operations, one undone, then a new one appended in its place.
C5_Witness ==
    /\ prev.kind = "undo" /\ Truthy(prev.ret)
    /\ last.kind = "addOperation"
    /\ last.beforeIndex = 1
    /\ Len(ds.operations) = 3

\* C6: the log never holds more than maxOperations entries, and an
\* addOperation on a log of maxOperations fully active entries leaves
\* maxOperations entries.
C6_LengthCapped ==
    /\ Len(ds.operations) <= maxOperations
    /\ (last.kind = "addOperation" /\ last.beforeIndex = maxOperations - 1)
          => Len(ds.operations) = maxOperations

\* An addOperation on a full, fully active log.
C6_Witness ==
    /\ last.kind = "addOperation"
    /\ last.beforeIndex = maxOperations - 1
    /\ prev.kind = "addOperation"

\* C7: after clear() the active list is empty, the cursor is -1, canUndo()
\* and canRedo() are false, and no operation stored before a clear is ever
\* in the log again or returned by a later undo or redo.
C7_ClearIsFinal ==
    /\ last.kind = "clear" =>
          /\ getActiveOperations(ds) = <<>>
          /\ ds.currentIndex = -1
          /\ ~canUndo(ds)
          /\ ~canRedo(ds)
    /\ Objs(ds.operations) \cap cleared = {}
    /\ (last.kind \in {"undo", "redo"} /\ Truthy(last.ret)) => last.ret.obj \notin cleared

\* A redo that returns an operation after a clear of a log with a redo tail.
C7_Witness ==
    /\ cleared # {}
    /\ Cardinality(cleared) >= 2
    /\ last.kind = "redo" /\ Truthy(last.ret)

\* ------------------------------------------------------------------- C8
Intents == {"draw", "cursor", "undo", "redo", "clear"}

\* C8: a draw, cursor, undo, redo or clear message handled on a connection
\* that has not joined changes no room (no log, no participant map, no room
\* created) and sends no event to anybody.
C8_UnjoinedDropped ==
    [][(handled'.type \in Intents /\ handled'.userId = NoId)
         => (rooms' = rooms /\ sent' = EmptySends)]_vars

\* ------------------------------------------------------------------- C9
Quiescent ==
    \A c \in Conns :
        inbox[c] = <<>> /\ outbox[c] = <<>> /\ ~client[c].isDrawing

\* C9: when nothing is in flight and no stroke is in progress, every joined
\* client's canvas shows exactly the strokes of its room's active operations,
\* in the log's order.
C9_CanvasMatchesLog ==
    Quiescent =>
        \A c \in Conns :
            (conns[c].userId # NoId /\ rooms[conns[c].roomId] # NoRoom)
              => client[c].canvas =
                   redrawFromHistory(
                       getActiveOperations(rooms[conns[c].roomId].drawingState))

\* ------------------------------------------------------------------ C10
Increasing(seq) == \A i \in 1..(Len(seq) - 1) : seq[i] < seq[i + 1]

RECURSIVE DrawObjs(_)
DrawObjs(events) ==
    IF events = <<>> THEN <<>>
    ELSE (IF Head(events).type = "draw" THEN <<Head(events).operation.obj>> ELSE <<>>)
         \o DrawObjs(Tail(events))

\* C10: every room's log holds its operations in the order the server
\* processed their draw messages, whatever their timestamps, and each
\* participant other than the sender has handled or still has in flight,
\* once each and in that order, exactly the draw events of the operations
\* processed while it was in the room.
C10_ProcessingOrder ==
    /\ \A r \in RoomIds :
         rooms[r] # NoRoom => Increasing(ObjSeq(rooms[r].drawingState.operations))
    /\ \A c \in Conns : client[c].received \o DrawObjs(outbox[c]) = due[c]

C10_Witness ==
    /\ \E r \in RoomIds :
         /\ rooms[r] # NoRoom
         /\ Len(rooms[r].drawingState.operations) = 2
         /\ rooms[r].drawingState.operations[1].timestamp
              > rooms[r].drawingState.operations[2].timestamp
    /\ \E c \in Conns : Len(client[c].received) = 2

\* ------------------------------------------------------------------ C11
\* The step just taken handled a message of this type on a joined connection.
JoinedStep(type) == handled'.type = type /\ handled'.userId # NoId

\* Active operations of a room's log, as object identities; none without a room.
RoomActive(rms, r) ==
    IF rms[r] = NoRoom THEN <<>> ELSE ObjSeq(getActiveOperations(rms[r].drawingState))

\* Number of participant entries of room r, other than those with id `except`,
\* whose transport is the open connection d.
OpenEntries(rms, cn, r, d, except) ==
    IF rms[r] = NoRoom \/ cn[d].state # "open" THEN 0
    ELSE Cardinality({i \in 1..Len(rms[r].users) :
                         rms[r].users[i].ws = d /\ rms[r].users[i].id # except})

\* Every room other than r is as it was before the step.
OtherRoomsUnchanged(r) == \A q \in RoomIds \ {r} : rooms'[q] = rooms[q]

\* C11: a draw message handled on a joined connection appends exactly one
\* operation (authored by the sender) to the active operations of its room's
\* log, and sends exactly one draw event carrying that stored operation to
\* every other participant entry of the room whose transport is open, and
\* none for the sender's own entry.
C11_DrawAppendsAndRelays ==
    [][JoinedStep("draw") =>
         LET r   == handled'.roomId
             uid == handled'.userId
             log == rooms'[r].drawingState
             op  == At(log.operations, log.currentIndex)
         IN  /\ rooms'[r] # NoRoom
             /\ RoomActive(rooms', r)
                  = LastN(RoomActive(rooms, r) \o <<nextObj'>>, maxOperations)
             /\ nextObj' = nextObj + 1
             /\ Truthy(op) /\ op.obj = nextObj' /\ op.type = "draw" /\ op.userId = uid
             /\ OtherRoomsUnchanged(r)
             /\ \A d \in Conns :
                  sent'[d] = Repeat([type |-> "draw", operation |-> op],
                                    OpenEntries(rooms', conns, r, d, uid))]_vars

C11_Witness ==
    /\ handled.type = "draw"
    /\ handled.userId # NoId
    /\ sent[handled.conn] = <<>>
    /\ \E d \in Conns \ {handled.conn} : Len(sent[d]) = 1

\* ------------------------------------------------------------------ C12
\* An id no participant has: nobody is excepted.
Nobody == <<"nobody">>

\* The log of room r before the step; a room that does not exist has none.
LogBefore(r) == IF rooms[r] = NoRoom THEN NewDrawingState ELSE rooms[r].drawingState

\* What an undo (dir = -1) or redo (dir = 1) step must have done.
HistoryStepOk(type, dir) ==
    LET r      == handled'.roomId
        before == LogBefore(r)
        after  == rooms'[r].drawingState
        can    == IF dir = -1 THEN before.currentIndex >= 0
                  ELSE before.currentIndex < Len(before.operations) - 1
        target == IF dir = -1 THEN before.operations[before.currentIndex + 1]
                  ELSE before.operations[before.currentIndex + 2]
        event  == [type       |-> type,
                   operation  |-> target,
                   operations |-> SubSeq(before.operations, 1,
                                         before.currentIndex + dir + 1),
                   canUndo    |-> before.currentIndex + dir >= 0,
                   canRedo    |-> before.currentIndex + dir
                                    < Len(before.operations) - 1]
    IN  /\ rooms'[r] # NoRoom
        /\ OtherRoomsUnchanged(r)
        /\ after.operations = before.operations
        /\ IF can
           THEN /\ after.currentIndex = before.currentIndex + dir
                /\ \A d \in Conns :
                     sent'[d] = Repeat(event, OpenEntries(rooms', conns, r, d, Nobody))
           ELSE /\ after.currentIndex = before.currentIndex
                /\ sent' = EmptySends

\* C12: an undo (redo) message handled on a joined connection that finds
\* something to undo (redo) moves the cursor by one and sends every
\* participant entry of the room with an open transport, the sender's
\* included, one event with the affected operation, the active operations
\* after the move and canUndo/canRedo after the move; with nothing to undo
\* (redo) nothing is sent and the log and cursor stay as they were.
C12_UndoRedoEvent ==
    [][/\ JoinedStep("undo") => HistoryStepOk("undo", -1)
       /\ JoinedStep("redo") => HistoryStepOk("redo", 1)]_vars

C12_Witness ==
    /\ handled.type = "redo"
    /\ handled.userId # NoId
    /\ Len(sent[handled.conn]) = 1
    /\ sent[handled.conn][1].canUndo
    /\ ~sent[handled.conn][1].canRedo
    /\ Len(sent[handled.conn][1].operations) = 1

\* ------------------------------------------------------------------ C13
\* C13: a clear message handled on a joined connection leaves its room's log
\* empty (no operations, cursor -1) and sends every participant entry of the
\* room with an open transport, the sender's included, one clear event that
\* carries nothing but its type.
C13_ClearResetsAndNotifies ==
    [][JoinedStep("clear") =>
         LET r == handled'.roomId
         IN  /\ rooms'[r] # NoRoom
             /\ rooms'[r].drawingState.operations = <<>>
             /\ rooms'[r].drawingState.currentIndex = -1
             /\ OtherRoomsUnchanged(r)
             /\ \A d \in Conns :
                  sent'[d] = Repeat([type |-> "clear"],
                                    OpenEntries(rooms', conns, r, d, Nobody))]_vars

C13_Witness ==
    /\ handled.type = "clear"
    /\ handled.userId # NoId
    /\ nextObj > 0
    /\ \A d \in Conns : sent[d] = <<[type |-> "clear"]>>

\* ------------------------------------------------------------------ C14
\* C14: an undo message handled on a joined connection whose room has an
\* active operation deactivates the most recently active one, whoever
\* authored it, and every event the step sends carries the same active list,
\* the one the log has after the step.
C14_UndoIsGlobal ==
    [][(JoinedStep("undo") /\ RoomActive(rooms, handled'.roomId) # <<>>) =>
         LET r      == handled'.roomId
             before == RoomActive(rooms, r)
         IN  /\ RoomActive(rooms', r) = SubSeq(before, 1, Len(before) - 1)
             /\ \A d \in Conns : \A i \in 1..Len(sent'[d]) :
                  /\ sent'[d][i].type = "undo"
                  /\ sent'[d][i].operation.obj = before[Len(before)]
                  /\ ObjSeq(sent'[d][i].operations) = RoomActive(rooms', r)
             /\ \A d \in Conns :
                  Len(sent'[d]) = OpenEntries(rooms', conns, r, d, Nobody)]_vars

\* A participant undid an operation another participant authored, and both
\* were sent the event.
C14_Witness ==
    /\ handled.type = "undo"
    /\ handled.userId # NoId
    /\ \A d \in Conns :
         /\ Len(sent[d]) = 1
         /\ sent[d][1].operation.userId # handled.userId
         /\ sent[d][1].operation.userId # NoId

\* ------------------------------------------------------------------ C15
RosterIds(rms, r) == [i \in 1..Len(rms[r].users) |-> rms[r].users[i].id]
EventRosterIds(event) == [i \in 1..Len(event.users) |-> event.users[i].id]

\* C15: a join message makes the connection a participant entry of the
\* (possibly new) room and leaves the room's log alone; the joiner is sent
\* first one init event whose roster is the room's roster with the joiner in
\* it and whose drawingState holds exactly the active operations of the log,
\* currentIndex being their count minus one; user_joined, naming the joiner,
\* goes once to every other participant entry of the room with an open
\* transport and not to the joiner's entry.
C15_JoinInitThenNotify ==
    [][handled'.type = "join" =>
         LET c   == handled'.conn
             uid == conns'[c].userId
             r   == conns'[c].roomId
             log == LogBefore(r)
             joined(e) == /\ e.type = "user_joined"
                          /\ e.user.id = uid
                          /\ EventRosterIds(e) = RosterIds(rooms', r)
         IN  /\ uid # NoId
             /\ rooms'[r] # NoRoom
             /\ \E i \in 1..Len(rooms'[r].users) :
                  rooms'[r].users[i].id = uid /\ rooms'[r].users[i].ws = c
             /\ rooms'[r].drawingState = log
             /\ Len(sent'[c]) >= 1
             /\ LET e == sent'[c][1]
                IN  /\ e.type = "init"
                    /\ e.userId = uid
                    /\ e.user.id = uid
                    /\ EventRosterIds(e) = RosterIds(rooms', r)
                    /\ \E j \in 1..Len(e.users) : e.users[j].id = uid
                    /\ e.drawingState.operations
                         = SubSeq(log.operations, 1, log.currentIndex + 1)
                    /\ e.drawingState.currentIndex
                         = Len(e.drawingState.operations) - 1
             /\ \A d \in Conns :
                  LET events == IF d = c THEN Tail(sent'[d]) ELSE sent'[d]
                  IN  /\ Len(events) = OpenEntries(rooms', conns, r, d, uid)
                      /\ \A i \in 1..Len(events) : joined(events[i])]_vars

\* A join into a room that has another participant and a log with a redo tail.
C15_Witness ==
    /\ handled.type = "join"
    /\ LET c == handled.conn
           r == conns[c].roomId
       IN  /\ rooms[r] # NoRoom
           /\ Len(rooms[r].drawingState.operations)
                > rooms[r].drawingState.currentIndex + 1
           /\ Len(sent[c]) = 1
           /\ sent[c][1].type = "init"
           /\ \E d \in Conns \ {c} : Len(sent[d]) = 1 /\ sent[d][1].type = "user_joined"

\* ------------------------------------------------------------------ C16
\* C16: when the close handler of a joined connection runs, the room holds no
\* entry under the connection's user id any more and its other entries are as
\* before; every remaining entry with an open transport is sent one
\* user_left event with the departed id and the roster after the removal;
\* and if the room is left without entries one more timer is armed for it.
C16_CloseRemovesAndNotifies ==
    [][(JoinedStep("close") /\ rooms[handled'.roomId] # NoRoom) =>
         LET r   == handled'.roomId
             uid == handled'.userId
         IN  /\ rooms'[r] # NoRoom
             /\ rooms'[r].users = SelectSeq(rooms[r].users, LAMBDA u : u.id # uid)
             /\ rooms'[r].drawingState = rooms[r].drawingState
             /\ OtherRoomsUnchanged(r)
             /\ \A d \in Conns :
                  /\ Len(sent'[d]) = OpenEntries(rooms', conns', r, d, Nobody)
                  /\ \A i \in 1..Len(sent'[d]) :
                       /\ sent'[d][i].type = "user_left"
                       /\ sent'[d][i].userId = uid
                       /\ EventRosterIds(sent'[d][i]) = RosterIds(rooms', r)
                       /\ \A j \in 1..Len(sent'[d][i].users) :
                            sent'[d][i].users[j].id # uid
             /\ timers' = IF Len(rooms'[r].users) = 0
                          THEN Append(timers, r) ELSE timers]_vars

\* A participant left a room in which another participant stays and is told.
C16_Witness ==
    /\ handled.type = "close"
    /\ handled.userId # NoId
    /\ \E d \in Conns :
         /\ Len(sent[d]) = 1
         /\ sent[d][1].type = "user_left"
         /\ Len(sent[d][1].users) = 1

\* ------------------------------------------------------------------ C17
\* C17: every participant entry of every room has as its transport a
\* connection that has joined and whose close handler has not run.
C17_EntriesOfLiveConnections ==
    \A r \in RoomIds :
        rooms[r] # NoRoom =>
            \A i \in 1..Len(rooms[r].users) :
                /\ conns[rooms[r].users[i].ws].state # "closed"
                /\ conns[rooms[r].users[i].ws].userId # NoId

\* ------------------------------------------------------------------ C18
\* Number of pending clean-up timers armed for room r.
PendingTimers(r) == Cardinality({i \in 1..Len(timers) : timers[i] = r})

\* C18: a join into a room for which a clean-up timer is pending (the grace
\* period since the room last became empty has not elapsed) finds the room
\* still registered, leaves its log as it is, and cancels the pending
\* clean-up, so that no timer armed before the join remains.
C18_RejoinKeepsRoomAndCancels ==
    [][(handled'.type = "join"
          /\ PendingTimers(conns'[handled'.conn].roomId) > 0) =>
         LET r == conns'[handled'.conn].roomId
         IN  /\ rooms[r] # NoRoom
             /\ rooms'[r].drawingState = rooms[r].drawingState
             /\ \A i \in 1..Len(timers') : timers'[i] # r]_vars

\* ------------------------------------------------------------------ C19
\* C19: at most one clean-up timer is pending per room id.
C19_OneTimerPerRoom == \A r \in RoomIds : PendingTimers(r) <= 1

\* ------------------------------------------------------------------ C20
\* C20: a room without participants that stays empty is eventually removed.
\* Only the callback of a clean-up timer removes a room, so every registered
\* room without participants has a clean-up timer pending.
C20_EmptyRoomHasTimer ==
    \A r \in RoomIds :
        (rooms[r] # NoRoom /\ Len(rooms[r].users) = 0) => PendingTimers(r) > 0

\* ------------------------------------------------------------------ C21
\* C21: for every registry the server reaches and every room id, the first
\* getRoom call for an id that has no room stores one with that id, an empty
\* log and no participants and touches no other room; a call for an id that
\* has a room returns the registry as it is (the same room, unaltered), a
\* second call changes nothing more, and a call for another id leaves this
\* room alone and yields a room that differs from it.
C21_GetRoomIdempotent ==
    \A r \in RoomIds :
        LET once == getRoom(rooms, r)
        IN  /\ rooms[r] # NoRoom => once = rooms
            /\ rooms[r] = NoRoom =>
                 /\ once[r].id = r
                 /\ once[r].users = <<>>
                 /\ once[r].drawingState.operations = <<>>
                 /\ once[r].drawingState.currentIndex = -1
                 /\ \A q \in RoomIds \ {r} : once[q] = rooms[q]
            /\ getRoom(once, r) = once
            /\ \A q \in RoomIds \ {r} :
                 /\ getRoom(once, q)[r] = once[r]
                 /\ getRoom(once, q)[q] # once[r]

\* A handler has just called getRoom for a room that has a participant and
\* a stored operation, while the other room id has no room.
C21_Witness ==
    /\ handled.type \in {"draw", "undo", "redo"}
    /\ rooms[handled.roomId] # NoRoom
    /\ Len(rooms[handled.roomId].users) > 0
    /\ Len(rooms[handled.roomId].drawingState.operations) > 0
    /\ \E q \in RoomIds : rooms[q] = NoRoom

\* ------------------------------------------------------------------ C22
\* The room has no participant entry under the id.
Absent(rms, r, uid) ==
    rms[r] = NoRoom \/ \A i \in 1..Len(rms[r].users) : rms[r].users[i].id # uid

\* C22: a cursor message handled for a user id that has no entry in the
\* connection's room changes no room (no cursor, no roster, no log, no room
\* created) and raises nothing: no error event goes back to the sender.
C22_CursorOfUnknownIsNoOp ==
    [][(handled'.type = "cursor" /\ Absent(rooms, handled'.roomId, handled'.userId)) =>
         /\ rooms' = rooms
         /\ timers' = timers
         /\ conns' = conns
         /\ \A i \in 1..Len(sent'[handled'.conn]) :
              sent'[handled'.conn][i].type # "error"]_vars

\* A cursor message was handled for an id without an entry in a room that
\* has participants.
C22_Witness ==
    /\ handled.type = "cursor"
    /\ rooms[handled.roomId] # NoRoom
    /\ Len(rooms[handled.roomId].users) > 0
    /\ Absent(rooms, handled.roomId, handled.userId)

\* ------------------------------------------------------------------ C23
\* C23: a message or close handled for a connection joined to room R changes
\* no room other than R and sends events only to connections that are
\* themselves joined to R at that moment.
C23_RoomsIsolated ==
    [][(handled'.type \in {"join", "draw", "cursor", "undo", "redo", "clear", "close"}
          /\ conns'[handled'.conn].userId # NoId) =>
         LET R == conns'[handled'.conn].roomId
         IN  /\ OtherRoomsUnchanged(R)
             /\ \A d \in Conns :
                  sent'[d] # <<>> =>
                      conns'[d].userId # NoId /\ conns'[d].roomId = R]_vars

\* ------------------------------------------------------------------ C24
\* C24: a message that cannot be decoded makes the server send exactly one
\* error event, to the connection it came from; the connection stays open
\* with the user id and room it had, no room and no timer changes, and no
\* other connection is sent anything.
C24_DecodeFailureAnswered ==
    [][handled'.type = "undecodable" =>
         LET c == handled'.conn
         IN  /\ Len(sent'[c]) = 1
             /\ sent'[c][1].type = "error"
             /\ \A d \in Conns \ {c} : sent'[d] = <<>>
             /\ conns' = conns
             /\ conns'[c].state = "open"
             /\ rooms' = rooms
             /\ timers' = timers]_vars

\* An undecodable message arrived on a joined connection whose room has
\* another participant.
C24_Witness ==
    /\ handled.type = "undecodable"
    /\ handled.userId # NoId
    /\ Len(sent[handled.conn]) = 1
    /\ \E d \in Conns \ {handled.conn} :
         OpenEntries(rooms, conns, handled.roomId, d, Nobody) > 0

\* ------------------------------------------------------------------ C25
\* C25: a decoded message whose type is none of join, draw, cursor, undo,
\* redo, clear changes no room, no connection and no timer, and no event is
\* sent to anybody.
C25_UnknownTypeIgnored ==
    [][handled'.type = "unknown" =>
         /\ sent' = EmptySends
         /\ rooms' = rooms
         /\ conns' = conns
         /\ timers' = timers]_vars

\* A message of unknown type arrived on a joined connection whose room has
\* another participant.
C25_Witness ==
    /\ handled.type = "unknown"
    /\ handled.userId # NoId
    /\ sent = EmptySends
    /\ \E d \in Conns \ {handled.conn} :
         OpenEntries(rooms, conns, handled.roomId, d, Nobody) > 0

\* ------------------------------------------------------------------ C26
\* C26: whatever step the server takes, a connection whose transport is not
\* open is sent nothing by it, and what it missed is not sent by a later step
\* either (a step sends only its own events); when the step is a draw or a
\* clear handled on a joined connection, every open connection holding an
\* entry of the room (other than the sender's entry, for a draw) is still
\* sent the event.
C26_FanOutSkipsNonOpen ==
    [][handled' # handled \/ sent' # sent =>
         /\ \A d \in Conns : conns[d].state # "open" => sent'[d] = <<>>
         /\ \A d \in Conns :
              /\ (JoinedStep("draw")
                  /\ OpenEntries(rooms', conns, handled'.roomId, d, handled'.userId) > 0)
                 => \E k \in 1..Len(sent'[d]) : sent'[d][k].type = "draw"
              /\ (JoinedStep("clear")
                  /\ OpenEntries(rooms', conns, handled'.roomId, d, Nobody) > 0)
                 => \E k \in 1..Len(sent'[d]) : sent'[d][k].type = "clear"]_vars

\* A clear was fanned out in a room one of whose entries has a transport that
\* is no longer open: that connection got nothing, the open one got the event.
C26_Witness ==
    /\ handled.type = "clear"
    /\ handled.userId # NoId
    /\ rooms[handled.roomId] # NoRoom
    /\ sent[handled.conn] # <<>>
    /\ \E d \in Conns :
         /\ conns[d].state # "open"
         /\ sent[d] = <<>>
         /\ \E i \in 1..Len(rooms[handled.roomId].users) :
              rooms[handled.roomId].users[i].ws = d

\* ------------------------------------------------------------------ C27
\* The step sends a draw message on connection c: one message more is in
\* flight to the server and the newest is a draw.
SentDraw(c) ==
    /\ Len(inbox'[c]) = Len(inbox[c]) + 1
    /\ inbox'[c][Len(inbox'[c])].type = "draw"

\* The step completes the stroke of page c: handleDrawEnd ran while a stroke
\* was in progress.
StrokeCompleted(c) == client[c].isDrawing /\ ~client'[c].isDrawing

C28_StoredPointsNonEmpty ==
    \A r \in RoomIds :
      rooms[r] # NoRoom =>
        \A i \in 1..Len(rooms[r].drawingState.operations) :
          rooms[r].drawingState.operations[i].data.points >= 1

\* ------------------------------------------------------------------ C29
\* C29: no two operations present in a log have the same id, whatever the
\* sequence of appends, appends within one millisecond included.
C29_OperationIdsUnique ==
    \A i, j \in 1..Len(ds.operations) :
      i # j => ds.operations[i].id # ds.operations[j].id

\* ------------------------------------------------------------------ C30
\* C30: a participant added without a color of their own is given the
\* palette entry at index (n mod 12), n being the number of entries of the
\* room just before the call; a color supplied with the join is the
\* participant's color unchanged. The entry stored in the room is the user
\* returned.
C30_ColorByCountOrSupplied ==
    [][nextUid' = nextUid + 1 =>
         LET n    == RosterSize(rooms)
             user == last'.ret
         IN  /\ last'.kind = "addUser"
             /\ user.color = IF last'.userData.color # ""
                             THEN <<last'.userData.color>>
                             ELSE <<colors[(n % 12) + 1]>>
             /\ MapHas(rooms'[RosterRoom].users, user.id)
             /\ MapGet(rooms'[RosterRoom].users, user.id).color = user.color]_vars

\* The thirteenth participant joined a room of twelve without a color and
\* got the first palette entry again, in a room where somebody joined with a
\* color of their own.
C30_Witness ==
    /\ last.kind = "addUser"
    /\ last.size = 12
    /\ last.userData.color = ""
    /\ last.ret.color = <<"#FF6B6B">>
    /\ Colored(rooms) > 0

\* ------------------------------------------------------------------ C31
\* C31: after every addOperation the cursor is operations.length - 1 and the
\* operation returned is the one just stored, the last of the log; the log
\* has no redo tail; the new active list is the previous active list followed
\* by the new operation, without its first element when (and only when) the
\* previous active list already had maxOperations entries.
C31_AppendCursorAndEviction ==
    [][last'.kind = "addOperation" =>
         LET before == ObjSeq(getActiveOperations(ds))
             after  == ObjSeq(getActiveOperations(ds'))
             new    == nextObj'
         IN  /\ ds'.currentIndex = Len(ds'.operations) - 1
             /\ last'.ret = ds'.operations[Len(ds'.operations)]
             /\ last'.ret.obj = new
             /\ new \notin Objs(ds.operations)
             /\ ObjSeq(ds'.operations) = after
             /\ after = IF Len(before) >= maxOperations
                        THEN Append(Tail(before), new)
                        ELSE Append(before, new)]_vars

\* A redo made the full log fully active again and the append after it
\* evicted the oldest entry.
C31_Witness ==
    /\ last.kind = "addOperation"
    /\ last.beforeIndex = maxOperations - 1
    /\ prev.kind = "redo" /\ Truthy(prev.ret)
    /\ Len(ds.operations) = maxOperations

\* ------------------------------------------------------------------ C40
\* C40: in every reachable state of the log in which canRedo() holds, redo()
\* followed at once by undo() leaves operations, currentIndex and the active
\* list as they were before the redo, and undo() returns the operation redo()
\* returned; the same is seen on the calls actually made.
C40_RedoUndoRestores ==
    /\ canRedo(ds) =>
         LET r == redo(ds)
             u == undo(r.state)
         IN  /\ Truthy(r.ret)
             /\ u.state.operations = ds.operations
             /\ u.state.currentIndex = ds.currentIndex
             /\ getActiveOperations(u.state) = getActiveOperations(ds)
             /\ u.ret = r.ret
    /\ (prev.kind = "redo" /\ Truthy(prev.ret) /\ last.kind = "undo") =>
         /\ ds.currentIndex = prev.beforeIndex
         /\ last.ret = prev.ret
         /\ canRedo(ds)

\* redo() then undo() on a log that has evicted entries and still has two
\* undone operations.
C40_Witness ==
    /\ Evicted
    /\ prev.kind = "redo" /\ Truthy(prev.ret)
    /\ last.kind = "undo"
    /\ ds.currentIndex <= Len(ds.operations) - 3

\* ------------------------------------------------------------------ C32
\* The log of room r; a room that does not exist has the log a new room gets.
LogOf(rms, r) == IF rms[r] = NoRoom THEN NewDrawingState ELSE rms[r].drawingState

\* C32: a step that handles a join, a cursor message, a close (or a new
\* connection, a transport failure, an unknown or undecodable message) leaves
\* operations and currentIndex of every room as they were and removes no
\* room; a step that handles an undo or a redo leaves the operations of
\* every room as they were and moves the cursor of its own room only; a
\* timer leaves the log of every room it does not remove as it was.
C32_LogChangesOnlyByIntents ==
    [][/\ handled'.type \in {"join", "cursor", "close", "closing", "connection",
                             "unknown", "undecodable"} =>
            \A r \in RoomIds :
              /\ LogOf(rooms', r) = LogOf(rooms, r)
              /\ rooms[r] # NoRoom => rooms'[r] # NoRoom
       /\ handled'.type \in {"undo", "redo"} =>
            \A r \in RoomIds :
              /\ LogOf(rooms', r).operations = LogOf(rooms, r).operations
              /\ r # handled'.roomId => LogOf(rooms', r) = LogOf(rooms, r)
       /\ handled'.type = "timer" =>
            \A r \in RoomIds :
              rooms'[r] # NoRoom => LogOf(rooms', r) = LogOf(rooms, r)]_vars

\* The last participant of a room whose log has an undone operation has
\* closed, and the log is still there.
C32_Witness ==
    /\ handled.type = "close"
    /\ handled.userId # NoId
    /\ rooms[handled.roomId] # NoRoom
    /\ Len(rooms[handled.roomId].users) = 0
    /\ Len(rooms[handled.roomId].drawingState.operations) > 0
    /\ rooms[handled.roomId].drawingState.currentIndex = -1

\* ------------------------------------------------------------------ C33
\* Connection d holds, in the room it joined, the entry of the user id it
\* joined under.
HoldsOwnEntry(rms, cn, d) ==
    /\ cn[d].userId # NoId
    /\ rms[cn[d].roomId] # NoRoom
    /\ \E i \in 1..Len(rms[cn[d].roomId].users) :
         /\ rms[cn[d].roomId].users[i].id = cn[d].userId
         /\ rms[cn[d].roomId].users[i].ws = d

\* C33: an open connection that holds its entry in the room it joined still
\* holds it after any step taken for another connection (a join, a close, a
\* message of any kind) and after a timer: only its own close removes it.
C33_OpenConnectionKeepsEntry ==
    [][\A d \in Conns :
         (/\ handled'.conn # d
          /\ conns[d].state = "open"
          /\ HoldsOwnEntry(rooms, conns, d))
         => HoldsOwnEntry(rooms', conns', d)]_vars

\* ------------------------------------------------------------------ C34
\* Number of participant entries, over all rooms, whose transport is d.
EntriesOf(rms, d) ==
    Cardinality({<<r, i>> \in RoomIds \X (1..MaxMessages) :
                    /\ rms[r] # NoRoom
                    /\ i <= Len(rms[r].users)
                    /\ rms[r].users[i].ws = d})

\* C34: at any time a connection is the transport of at most one participant
\* entry over all rooms.
C34_OneEntryPerConnection == \A d \in Conns : EntriesOf(rooms, d) <= 1

\* ------------------------------------------------------------------ C35
\* C35: a room that has a participant entry is still in the registry after
\* any step, and a clean-up timer that fires while the room has an entry
\* leaves the room, its log included, exactly as it was.
C35_NonEmptyRoomKept ==
    [][\A r \in RoomIds :
         (rooms[r] # NoRoom /\ Len(rooms[r].users) > 0) =>
            /\ rooms'[r] # NoRoom
            /\ handled'.type = "timer" => rooms'[r] = rooms[r]]_vars

\* The timer armed when a room became empty fired after somebody had joined
\* the room again; the room and the operation in its log are still there.
C35_Witness ==
    /\ handled.type = "timer"
    /\ rooms[handled.roomId] # NoRoom
    /\ Len(rooms[handled.roomId].users) > 0
    /\ Len(rooms[handled.roomId].drawingState.operations) > 0

\* ------------------------------------------------------------------ C36
\* C36: the operation stored by a draw message handled on a joined connection
\* has as userId the id the connection joined under, as timestamp a value of
\* the server's clock and as id the id the server generated from it, and type
\* 'draw', whatever fields of those names the message carries; the payload is
\* stored under data.
C36_StoredFieldsServerAssigned ==
    [][JoinedStep("draw") =>
         LET log == rooms'[handled'.roomId].drawingState
             op  == At(log.operations, log.currentIndex)
         IN  /\ Truthy(op)
             /\ op.obj = nextObj'
             /\ op.userId = handled'.userId
             /\ op.userId # ForgedFields.userId
             /\ op.type = "draw"
             /\ op.timestamp \in Times
             /\ op.timestamp # ForgedFields.timestamp
             /\ \E rnd \in ServerRandoms : op.id = <<"op", op.timestamp, rnd>>
             /\ op.id # ForgedFields.id
             /\ op.data \in Strokes]_vars

\* The raw draw message, which names an id, a timestamp and a userId of its
\* own, was handled on a joined connection.
C36_Witness ==
    /\ handled.type = "draw"
    /\ handled.userId # NoId
    /\ rooms[handled.roomId] # NoRoom
    /\ LET log == rooms[handled.roomId].drawingState
       IN  /\ log.currentIndex >= 0
           /\ At(log.operations, log.currentIndex).obj = nextObj
           /\ At(log.operations, log.currentIndex).data.points = 0

\* ------------------------------------------------------------------ C37
\* C37: whenever no message is in flight and no stroke is in progress, each
\* joined page's undo button is enabled exactly when canUndo() holds for the
\* log of its room, and its redo button exactly when canRedo() holds.
C37_ButtonsMatchLog ==
    Quiescent =>
        \A c \in Conns :
            (conns[c].userId # NoId /\ rooms[conns[c].roomId] # NoRoom)
              => /\ ~client[c].undoDisabled
                      <=> canUndo(rooms[conns[c].roomId].drawingState)
                 /\ ~client[c].redoDisabled
                      <=> canRedo(rooms[conns[c].roomId].drawingState)

\* ------------------------------------------------------------------ C38
\* Sockets of the page that are connected or connecting.
LiveSockets == {s \in SocketIds : wsm.sockets[s].state \in {"connecting", "open"}}

\* C38: the page has at most one socket that is open or connecting.
C38_SingleConnection == Cardinality(LiveSockets) <= 1

\* ------------------------------------------------------------------ C39
\* The delay of the k-th consecutive reconnect attempt, in milliseconds.
Backoff == <<1000, 2000, 4000, 8000, 16000>>

\* The step ran the onopen, respectively the onclose, handler of a socket.
SomeSocketOpened ==
    /\ Len(wsm'.sockets) = Len(wsm.sockets)
    /\ \E s \in SocketIds :
         wsm.sockets[s].state = "connecting" /\ wsm'.sockets[s].state = "open"
SomeSocketClosed == Len(wsm'.sockets) < Len(wsm.sockets)

\* C39: the counter of consecutive reconnect attempts never exceeds 5; a
\* close handler that finds it below 5 schedules exactly one attempt, the k-th
\* in a row after 1000 * 2^(k-1) ms, and one that finds it at 5 reports
\* 'failed' and schedules nothing; a socket that opens resets the counter to 0
\* and reports 'connected'; attempts are scheduled by close handlers only; and
\* whenever 'disconnected' was reported, 'connected' or 'failed' is reported
\* later.
C39_ReconnectBackoff ==
    /\ [](wsm.reconnectAttempts \in 0..5)
    /\ [][SomeSocketOpened =>
            /\ wsm'.reconnectAttempts = 0
            /\ wsm'.status = "connected"
            /\ wsm'.pending = wsm.pending]_vars
    /\ [][(SomeSocketClosed /\ wsm.reconnectAttempts < 5) =>
            /\ wsm'.reconnectAttempts = wsm.reconnectAttempts + 1
            /\ wsm'.pending = Append(wsm.pending, Backoff[wsm'.reconnectAttempts])
            /\ wsm'.status = "disconnected"
            /\ Len(wsm'.sockets) = Len(wsm.sockets) - 1]_vars
    /\ [][(SomeSocketClosed /\ wsm.reconnectAttempts >= 5) =>
            /\ wsm'.reconnectAttempts = wsm.reconnectAttempts
            /\ wsm'.pending = wsm.pending
            /\ wsm'.status = "failed"
            /\ Len(wsm'.sockets) = Len(wsm.sockets) - 1]_vars
    /\ [][Len(wsm'.pending) > Len(wsm.pending) => SomeSocketClosed]_vars
    /\ (wsm.status = "disconnected") ~> (wsm.status \in {"connected", "failed"})

\* An open connection was lost and the five attempts that followed all failed:
\* 'failed' is reported, no timer is pending and no socket is connecting.
C39_Witness ==
    /\ wsm.status = "failed"
    /\ wsm.reconnectAttempts = 5
    /\ wsm.lost = 1
    /\ wsm.switches = 0
    /\ wsm.pending = <<>>
    /\ wsm.sockets = <<>>

====
